---- MODULE Spec2Model ----
(***************************************************************************)
(* A model of scripts/check_translations.py: the translation string        *)
(* checker.  One invocation of the script is a run of main(); the file     *)
(* system (source files, lang/*.json) persists between invocations.        *)
(*                                                                         *)
(* Strings that the program inspects character by character (extracted     *)
(* texts, catalog keys) are sequences of one-character strings.  File      *)
(* contents are given as the sequence of regular-expression matches        *)
(* (re.finditer) that the extractors iterate over.                         *)
(***************************************************************************)
EXTENDS Integers, Sequences, FiniteSets, TLC

(***************************************************************************)
(* Bounds of the model.                                                    *)
(***************************************************************************)
\* most regular-expression matches in one source file
MaxMatches == 1
\* most keys of one generated language catalog
MaxKeys == 2
\* most items of a generated lang/base.json
MaxBaseItems == 2
\* most command-line arguments of one invocation
MaxArgs == 2

(***************************************************************************)
(* Characters and strings.                                                 *)
(***************************************************************************)
Letters ==
    { "a","b","c","d","e","f","g","h","i","j","k","l","m",
      "n","o","p","q","r","s","t","u","v","w","x","y","z",
      "A","B","C","D","E","F","G","H","I","J","K","L","M",
      "N","O","P","Q","R","S","T","U","V","W","X","Y","Z" }

Digits == { "0","1","2","3","4","5","6","7","8","9" }

\* \w of Python's re on the characters used here
WordChars == Letters \cup Digits \cup { "_" }

\* the class [\w-]
WordDashChars == WordChars \cup { "-" }

\* the class [0-9a-fA-F]
HexChars == Digits \cup { "a","b","c","d","e","f","A","B","C","D","E","F" }

\* ord() of a character (newline and the printable ASCII characters)
CodePoint ==
    ("\n" :> 10) @@ (" " :> 32) @@ ("!" :> 33) @@ ("\"" :> 34) @@ ("#" :> 35) @@ ("$" :> 36)
    @@ ("%" :> 37) @@ ("&" :> 38) @@ ("'" :> 39) @@ ("(" :> 40) @@ (")" :> 41) @@ ("*" :> 42)
    @@ ("+" :> 43) @@ ("," :> 44) @@ ("-" :> 45) @@ ("." :> 46) @@ ("/" :> 47) @@ ("0" :> 48)
    @@ ("1" :> 49) @@ ("2" :> 50) @@ ("3" :> 51) @@ ("4" :> 52) @@ ("5" :> 53) @@ ("6" :> 54)
    @@ ("7" :> 55) @@ ("8" :> 56) @@ ("9" :> 57) @@ (":" :> 58) @@ (";" :> 59) @@ ("<" :> 60)
    @@ ("=" :> 61) @@ (">" :> 62) @@ ("?" :> 63) @@ ("@" :> 64) @@ ("A" :> 65) @@ ("B" :> 66)
    @@ ("C" :> 67) @@ ("D" :> 68) @@ ("E" :> 69) @@ ("F" :> 70) @@ ("G" :> 71) @@ ("H" :> 72)
    @@ ("I" :> 73) @@ ("J" :> 74) @@ ("K" :> 75) @@ ("L" :> 76) @@ ("M" :> 77) @@ ("N" :> 78)
    @@ ("O" :> 79) @@ ("P" :> 80) @@ ("Q" :> 81) @@ ("R" :> 82) @@ ("S" :> 83) @@ ("T" :> 84)
    @@ ("U" :> 85) @@ ("V" :> 86) @@ ("W" :> 87) @@ ("X" :> 88) @@ ("Y" :> 89) @@ ("Z" :> 90)
    @@ ("[" :> 91) @@ ("\\" :> 92) @@ ("]" :> 93) @@ ("^" :> 94) @@ ("_" :> 95) @@ ("a" :> 97)
    @@ ("b" :> 98) @@ ("c" :> 99) @@ ("d" :> 100) @@ ("e" :> 101) @@ ("f" :> 102) @@ ("g" :> 103)
    @@ ("h" :> 104) @@ ("i" :> 105) @@ ("j" :> 106) @@ ("k" :> 107) @@ ("l" :> 108) @@ ("m" :> 109)
    @@ ("n" :> 110) @@ ("o" :> 111) @@ ("p" :> 112) @@ ("q" :> 113) @@ ("r" :> 114) @@ ("s" :> 115)
    @@ ("t" :> 116) @@ ("u" :> 117) @@ ("v" :> 118) @@ ("w" :> 119) @@ ("x" :> 120) @@ ("y" :> 121)
    @@ ("z" :> 122) @@ ("{" :> 123) @@ ("|" :> 124) @@ ("}" :> 125) @@ ("~" :> 126)

\* Python's str comparison a < b: by code point, a proper prefix is smaller
RECURSIVE StrLess(_, _)
StrLess(a, b) ==
    IF b = <<>> THEN FALSE
    ELSE IF a = <<>> THEN TRUE
    ELSE IF a[1] # b[1] THEN CodePoint[a[1]] < CodePoint[b[1]]
    ELSE StrLess(Tail(a), Tail(b))

\* sorted(S) for a set of strings
RECURSIVE sorted(_)
sorted(S) ==
    IF S = {} THEN <<>>
    ELSE LET m == CHOOSE x \in S : \A y \in S : y = x \/ StrLess(x, y)
         IN  <<m>> \o sorted(S \ {m})

\* the elements of a sequence
Range(s) == { s[i] : i \in DOMAIN s }

\* s[i..] starts with the characters of p
StartsWithAt(s, i, p) ==
    /\ i + Len(p) - 1 <= Len(s)
    /\ \A k \in 1..Len(p) : s[i + k - 1] = p[k]

\* str.replace(old, new): every non-overlapping occurrence, left to right
RECURSIVE ReplaceFrom(_, _, _, _)
ReplaceFrom(s, i, old, new) ==
    IF i > Len(s) THEN <<>>
    ELSE IF StartsWithAt(s, i, old)
         THEN new \o ReplaceFrom(s, i + Len(old), old, new)
         ELSE <<s[i]>> \o ReplaceFrom(s, i + 1, old, new)

replace(s, old, new) == ReplaceFrom(s, 1, old, new)

\* text.replace("\\'", "'").replace('\\"', '"').replace('\\\\', '\\')
unescape(text) ==
    replace(replace(replace(text, <<"\\", "'">>, <<"'">>),
                    <<"\\", "\"">>, <<"\"">>),
            <<"\\", "\\">>, <<"\\">>)

(***************************************************************************)
(* Program constants.                                                      *)
(***************************************************************************)
SPECIAL_KEYS ==
    { <<".","a","u","t","h","o","r","M","s","g">>, <<".","t","i","t","l","e">> }

WHITELIST_UNUSED ==
    { <<"(","b","e","t","a",")">>,
      <<"3","0","t","h"," ","A","n","n","i","v","e","r","s","a","r","y">>,
      <<"A","d","a","p","t","i","v","e"," ","T","r","i","g","g","e","r">>,
      <<"A","s","t","r","o"," ","B","o","t">>,
      <<"B","u","t","t","o","n","s">>,
      <<"C","a","l","i","b","r","a","t","i","o","n"," ","i","n"," ","p","r","o","g","r","e","s","s">>,
      <<"C","h","r","o","m","a"," ","I","n","d","i","g","o">>,
      <<"C","h","r","o","m","a"," ","P","e","a","r","l">>,
      <<"C","h","r","o","m","a"," ","T","e","a","l">>,
      <<"C","o","b","a","l","t"," ","B","l","u","e">>,
      <<"C","o","n","t","i","n","u","e">>,
      <<"C","o","s","m","i","c"," ","R","e","d">>,
      <<"F","o","r","t","n","i","t","e">>,
      <<"G","a","l","a","c","t","i","c"," ","P","u","r","p","l","e">>,
      <<"G","o","d"," ","o","f"," ","W","a","r"," ","R","a","g","n","a","r","o","k">>,
      <<"G","r","e","y"," ","C","a","m","o","u","f","l","a","g","e">>,
      <<"H","a","p","t","i","c"," ","V","i","b","r","a","t","i","o","n">>,
      <<"H","e","a","d","p","h","o","n","e"," ","J","a","c","k">>,
      <<"I","n","i","t","i","a","l","i","z","i","n","g",".",".",".">>,
      <<"L","i","g","h","t","s">>,
      <<"M","i","c","r","o","p","h","o","n","e">>,
      <<"M","i","d","n","i","g","h","t"," ","B","l","a","c","k">>,
      <<"N","o","v","a"," ","P","i","n","k">>,
      <<"S","a","m","p","l","i","n","g",".",".",".">>,
      <<"S","o","n","y"," ","D","u","a","l","S","e","n","s","e">>,
      <<"S","o","n","y"," ","D","u","a","l","S","e","n","s","e"," ","E","d","g","e">>,
      <<"S","o","n","y"," ","D","u","a","l","S","h","o","c","k"," ","4"," ","V","1">>,
      <<"S","o","n","y"," ","D","u","a","l","S","h","o","c","k"," ","4"," ","V","2">>,
      <<"S","p","e","a","k","e","r">>,
      <<"S","p","i","d","e","r","-","M","a","n"," ","2">>,
      <<"S","t","a","r","l","i","g","h","t"," ","B","l","u","e">>,
      <<"S","t","a","r","t">>,
      <<"S","t","e","r","l","i","n","g"," ","S","i","l","v","e","r">>,
      <<"T","h","e"," ","L","a","s","t"," ","o","f"," ","U","s">>,
      <<"U","S","B"," ","C","o","n","n","e","c","t","o","r">>,
      <<"V","o","l","c","a","n","i","c"," ","R","e","d">>,
      <<"W","h","i","t","e">>,
      <<"Y","o","u","r"," ","d","e","v","i","c","e"," ","m","i","g","h","t"," ","n","o","t"," ","b","e"," ","a"," ","g","e","n","u","i","n","e"," ","S","o","n","y"," ","c","o","n","t","r","o","l","l","e","r","."," ","I","f"," ","i","t"," ","i","s"," ","n","o","t"," ","a"," ","c","l","o","n","e"," ","t","h","e","n"," ","p","l","e","a","s","e"," ","r","e","p","o","r","t"," ","t","h","i","s"," ","i","s","s","u","e",".">>,
      <<"l","e","f","t"," ","m","o","d","u","l","e">>,
      <<"r","i","g","h","t"," ","m","o","d","u","l","e">> }

(***************************************************************************)
(* should_exclude_string: re.match of each of EXCLUDE_PATTERNS.            *)
(***************************************************************************)
\* "$" without re.MULTILINE: the end of the string, or just before a final newline
AtEnd(s, i) == i = Len(s) + 1 \/ (i = Len(s) /\ s[i] = "\n")

\* s[i..j-1] is a non-empty run of characters of class C
RunOf(s, i, j, C) == i < j /\ \A k \in i..(j - 1) : s[k] \in C

\* ^\.[\w-]+$ and ^#[\w-]+$
MatchSelector(s, first) ==
    /\ Len(s) >= 1 /\ s[1] = first
    /\ \E j \in 3..(Len(s) + 1) : RunOf(s, 2, j, WordDashChars) /\ AtEnd(s, j)

\* ^[\w-]+\.[\w-]+$
MatchCompound(s) ==
    \E i \in 2..Len(s) :
        /\ RunOf(s, 1, i, WordDashChars)
        /\ s[i] = "."
        /\ \E j \in (i + 2)..(Len(s) + 1) :
              RunOf(s, i + 1, j, WordDashChars) /\ AtEnd(s, j)

\* ^path,rect,circle
MatchSvgList(s) ==
    StartsWithAt(s, 1, <<"p","a","t","h",",","r","e","c","t",",","c","i","r","c","l","e">>)

\* ^\\x[0-9a-fA-F]+$
MatchHexEscape(s) ==
    /\ StartsWithAt(s, 1, <<"\\", "x">>)
    /\ \E j \in 4..(Len(s) + 1) : RunOf(s, 3, j, HexChars) /\ AtEnd(s, j)

should_exclude_string(text) ==
    \/ MatchSelector(text, ".")
    \/ MatchSelector(text, "#")
    \/ MatchCompound(text)
    \/ MatchSvgList(text)
    \/ MatchHexEscape(text)

(***************************************************************************)
(* Source files.  The content of a readable file is the sequence of        *)
(* matches re.finditer yields on it, in file order.  A match of the        *)
(* ds-i18n element pattern is                                              *)
(*   [rule |-> "tag", text, line, col, calls]                              *)
(* with text = match.group(2) and calls the matches of                     *)
(* template_literal_pattern inside text; a match of the l() pattern is     *)
(*   [rule |-> "call", text, line, col, calls |-> <<>>]                    *)
(* with text = match.group(2), the literal as written.  A file is          *)
(*   [exists, readable, matches]                                           *)
(* where readable is whether open() and read() succeed on it.              *)
(***************************************************************************)
Occurrence(file, m) == [file |-> file, line |-> m.line, col |-> m.col]

\* strings[text] = [occ]: the list is replaced, not extended
SetOccurrence(strings, text, occ) ==
    IF text \in DOMAIN strings
    THEN [strings EXCEPT ![text] = <<occ>>]
    ELSE strings @@ (text :> <<occ>>)

\* strings[text].append(occ), creating the list first if the key is new
AddOccurrence(strings, text, occ) ==
    IF text \in DOMAIN strings
    THEN [strings EXCEPT ![text] = Append(@, occ)]
    ELSE strings @@ (text :> <<occ>>)

\* the names of </?(?:b|i|em|strong|span)>
SimpleTagNames ==
    { <<"b">>, <<"i">>, <<"e","m">>, <<"s","t","r","o","n","g">>, <<"s","p","a","n">> }

\* the length of the match of </?(?:b|i|em|strong|span)> at s[i], or 0
SimpleTagLenAt(s, i) ==
    IF i > Len(s) \/ s[i] # "<" THEN 0
    ELSE LET k == IF i + 1 <= Len(s) /\ s[i + 1] = "/" THEN i + 2 ELSE i + 1
             hits == { n \in SimpleTagNames :
                         StartsWithAt(s, k, n) /\ StartsWithAt(s, k + Len(n), <<">">>) }
         IN  IF hits = {} THEN 0
             ELSE LET n == CHOOSE n \in hits : TRUE IN k + Len(n) + 1 - i

\* re.sub(r'</?(?:b|i|em|strong|span)>', '', text)
RECURSIVE StripSimpleTagsFrom(_, _)
StripSimpleTagsFrom(s, i) ==
    IF i > Len(s) THEN <<>>
    ELSE IF SimpleTagLenAt(s, i) > 0
         THEN StripSimpleTagsFrom(s, i + SimpleTagLenAt(s, i))
         ELSE <<s[i]>> \o StripSimpleTagsFrom(s, i + 1)

\* the "complex nested HTML" test that makes an extractor skip a match
IsComplexHtml(text) ==
    /\ "<" \in Range(text) /\ ">" \in Range(text)
    /\ "<" \in Range(StripSimpleTagsFrom(text, 1))

\* the loop body of extract_ds_i18n_strings over the matches of one file
RECURSIVE DsI18nMatches(_, _, _, _)
DsI18nMatches(strings, file, matches, i) ==
    IF i > Len(matches) THEN strings
    ELSE LET m == matches[i]
             keep == m.rule = "tag" /\ ~IsComplexHtml(m.text) /\ m.text # <<>>
         IN  DsI18nMatches(
                 IF keep THEN AddOccurrence(strings, m.text, Occurrence(file, m))
                         ELSE strings,
                 file, matches, i + 1)

\* the matches of the l() pattern in a file: the calls written on their own
\* and the calls inside the text of an element
RECURSIVE LCallMatches(_, _)
LCallMatches(matches, i) ==
    IF i > Len(matches) THEN <<>>
    ELSE (IF matches[i].rule = "call" THEN <<matches[i]>> ELSE matches[i].calls)
         \o LCallMatches(matches, i + 1)

\* the loop body of extract_l_function_strings over the l() matches of one file
RECURSIVE LFunctionMatches(_, _, _, _)
LFunctionMatches(strings, file, calls, i) ==
    IF i > Len(calls) THEN strings
    ELSE LFunctionMatches(
             IF calls[i].text # <<>>
             THEN AddOccurrence(strings, unescape(calls[i].text),
                                Occurrence(file, calls[i]))
             ELSE strings,
             file, calls, i + 1)

\* the template-literal loop of extract_html_strings_from_js: every inner
\* call is recorded at the position of the enclosing element
RECURSIVE TemplateMatches(_, _, _, _, _)
TemplateMatches(strings, file, m, calls, i) ==
    IF i > Len(calls) THEN strings
    ELSE TemplateMatches(
             IF calls[i].text # <<>>
             THEN AddOccurrence(strings, unescape(calls[i].text), Occurrence(file, m))
             ELSE strings,
             file, m, calls, i + 1)

\* the loop body of extract_html_strings_from_js over the matches of one file
RECURSIVE HtmlInJsMatches(_, _, _, _)
HtmlInJsMatches(strings, file, matches, i) ==
    IF i > Len(matches) THEN strings
    ELSE LET m == matches[i]
             keep == m.rule = "tag" /\ ~IsComplexHtml(m.text) /\ m.text # <<>>
             inner == TemplateMatches(strings, file, m, m.calls, 1)
             next == IF ~keep THEN strings
                     ELSE IF m.calls = <<>>
                          THEN AddOccurrence(inner, m.text, Occurrence(file, m))
                          ELSE inner
         IN  HtmlInJsMatches(next, file, matches, i + 1)

\* which of the three extractors runs
ExtractFile(rule, strings, file, matches) ==
    CASE rule = "ds_i18n"    -> DsI18nMatches(strings, file, matches, 1)
      [] rule = "l_function" -> LFunctionMatches(strings, file, LCallMatches(matches, 1), 1)
      [] rule = "html_in_js" -> HtmlInJsMatches(strings, file, matches, 1)

\* an extractor over its list of files, in list order: the strings found
\* with their occurrences, and the lines printed for files that failed
RECURSIVE ExtractFiles(_, _, _, _, _)
ExtractFiles(rule, fs, file_list, i, acc) ==
    IF i > Len(file_list) THEN acc
    ELSE LET f == file_list[i] IN
         ExtractFiles(rule, fs, file_list, i + 1,
             IF ~fs[f].readable
             THEN [acc EXCEPT !.printed = Append(@, <<"Error reading", f>>)]
             ELSE [acc EXCEPT !.strings = ExtractFile(rule, @, f, fs[f].matches)])

EmptyDict == [k \in {} |-> <<>>]

extract_ds_i18n_strings(fs, html_files) ==
    ExtractFiles("ds_i18n", fs, html_files, 1, [strings |-> EmptyDict, printed |-> <<>>])

extract_l_function_strings(fs, js_files) ==
    ExtractFiles("l_function", fs, js_files, 1, [strings |-> EmptyDict, printed |-> <<>>])

extract_html_strings_from_js(fs, js_files) ==
    ExtractFiles("html_in_js", fs, js_files, 1, [strings |-> EmptyDict, printed |-> <<>>])

\* main's merge of the three results: locations.copy() for a new key,
\* extend(locations) for a key already there
MergeLocations(into, from) ==
    [k \in DOMAIN into \cup DOMAIN from |->
        (IF k \in DOMAIN into THEN into[k] ELSE <<>>)
        \o (IF k \in DOMAIN from THEN from[k] ELSE <<>>)]


(***************************************************************************)
(* Language catalogs: lang/<code>.json.  A file is                         *)
(*   [kind |-> "absent"]   no such file                                    *)
(*   [kind |-> "bad"]      open() or json.load fails on it                 *)
(*   [kind |-> "nondict"]  valid JSON that is not an object                *)
(*   [kind |-> "dict"]     a JSON object, items its <<key, value>> pairs   *)
(*                         in file order                                   *)
(* (items is <<>> unless kind = "dict").  Language codes and keys are      *)
(* character sequences; values are opaque.                                 *)
(***************************************************************************)
Absent == [kind |-> "absent", items |-> <<>>]

Bad == [kind |-> "bad", items |-> <<>>]

NonDict == [kind |-> "nondict", items |-> <<>>]

Dict(items) == [kind |-> "dict", items |-> items]

\* the code of lang/base.json
BaseCode == <<"b","a","s","e">>

\* dict.keys()
Keys(items) == { items[i][1] : i \in DOMAIN items }

\* dict.get(key, default)
Get(items, key, default) ==
    IF key \in Keys(items)
    THEN items[CHOOSE i \in DOMAIN items : items[i][1] = key][2]
    ELSE default

\* d[key] = value: a new key goes last, a known key keeps its place
DictSet(items, key, value) ==
    IF key \in Keys(items)
    THEN [i \in DOMAIN items |->
            IF items[i][1] = key THEN <<key, value>> ELSE items[i]]
    ELSE Append(items, <<key, value>>)

\* for key in keys: new_data[key] = "", whatever the file held
RECURSIVE CopyKeysBlank(_, _, _, _)
CopyKeysBlank(new_data, existing_data, keys, i) ==
    IF i > Len(keys) THEN new_data
    ELSE CopyKeysBlank(DictSet(new_data, keys[i], ""), existing_data, keys, i + 1)

\* for key in keys: new_data[key] = existing_data.get(key, "")
RECURSIVE CopyKeys(_, _, _, _)
CopyKeys(new_data, existing_data, keys, i) ==
    IF i > Len(keys) THEN new_data
    ELSE CopyKeys(DictSet(new_data, keys[i], Get(existing_data, keys[i], "")),
                  existing_data, keys, i + 1)

\* the new_data that export_to_base_json builds
NewBaseData(existing_data, used_strings) ==
    LET special == CopyKeys(<<>>, existing_data, sorted(SPECIAL_KEYS), 1)
        strings == CopyKeys(special, existing_data, sorted(used_strings), 1)
    IN  DictSet(strings, <<>>, Get(existing_data, <<>>, ""))

\* added_count that takes a key for new when the file has no text for it
RECURSIVE AddedKeysByValue(_, _, _)
AddedKeysByValue(new_data, existing_data, i) ==
    IF i > Len(new_data) THEN <<>>
    ELSE (IF Get(existing_data, new_data[i][1], "") = "" /\ new_data[i][1] # <<>>
          THEN <<new_data[i][1]>> ELSE <<>>)
         \o AddedKeysByValue(new_data, existing_data, i + 1)

\* the keys counted by added_count, in new_data order
RECURSIVE AddedKeys(_, _, _)
AddedKeys(new_data, existing_data, i) ==
    IF i > Len(new_data) THEN <<>>
    ELSE (IF new_data[i][1] \notin Keys(existing_data) /\ new_data[i][1] # <<>>
          THEN <<new_data[i][1]>> ELSE <<>>)
         \o AddedKeys(new_data, existing_data, i + 1)

\* export_to_base_json on the base file `base`.  outcome is how the write
\* goes: "ok", "open_fails" (the file is left as it was) or "dump_fails"
\* (the file was truncated by open and holds no complete document).
\* Returns the file afterwards, the lines printed, and success; a base file
\* that holds JSON other than an object makes existing_data.get raise,
\* which nothing catches (raised).
export_to_base_json(base, used_strings, verbose, outcome) ==
    LET read_error == IF base.kind = "bad" THEN << <<"Error reading base.json">> >> ELSE <<>>
        existing_data == base.items
        new_data == NewBaseData(existing_data, used_strings)
        added == AddedKeys(new_data, existing_data, 1)
    IN  IF base.kind = "nondict"
        THEN [file |-> base, printed |-> <<>>, success |-> FALSE, raised |-> TRUE]
        ELSE IF outcome = "ok"
        THEN [file |-> Dict(new_data),
              printed |-> read_error
                  \o << <<"Exported", Cardinality(used_strings), Cardinality(SPECIAL_KEYS)>>,
                        <<"Total keys in file", Len(new_data)>> >>
                  \o (IF verbose
                      THEN [i \in DOMAIN added |-> <<"+ Added", added[i]>>]
                      ELSE IF Len(added) > 0
                           THEN << <<"Added new strings", Len(added)>> >>
                           ELSE <<>>),
              success |-> TRUE, raised |-> FALSE]
        ELSE [file |-> IF outcome = "open_fails" THEN base ELSE Bad,
              printed |-> read_error \o << <<"Error writing base.json">> >>,
              success |-> FALSE, raised |-> FALSE]

\* a loop of load_translation_keys that forgets keys.discard("")
RECURSIVE LoadFilesKeepingEmpty(_, _, _, _)
LoadFilesKeepingEmpty(lg, lang_files, i, acc) ==
    IF i > Len(lang_files) THEN acc
    ELSE LET lang_code == lang_files[i]
             keys == Keys(lg[lang_code].items)
         IN  LoadFilesKeepingEmpty(lg, lang_files, i + 1,
                 IF lg[lang_code].kind = "dict"
                 THEN [acc EXCEPT !.keys_by_language = @ @@ (lang_code :> keys),
                                  !.all_keys = @ \cup keys]
                 ELSE [acc EXCEPT !.printed = Append(@, <<"Error reading", lang_code>>)])

\* the loop of load_translation_keys over lang_files, in list order
RECURSIVE LoadFiles(_, _, _, _)
LoadFiles(lg, lang_files, i, acc) ==
    IF i > Len(lang_files) THEN acc
    ELSE LET lang_code == lang_files[i]
             keys == Keys(lg[lang_code].items) \ { <<>> }
         IN  LoadFiles(lg, lang_files, i + 1,
                 IF lg[lang_code].kind = "dict"
                 THEN [acc EXCEPT !.keys_by_language = @ @@ (lang_code :> keys),
                                  !.all_keys = @ \cup keys]
                 ELSE [acc EXCEPT !.printed = Append(@, <<"Error reading", lang_code>>)])

\* load_translation_keys: lang_files is the list LANG_DIR.glob returned
load_translation_keys(lg, lang_files) ==
    IF lang_files = <<>>
    THEN [all_keys |-> {}, keys_by_language |-> EmptyDict,
          printed |-> << <<"Warning: No language files found">> >>]
    ELSE LET r == LoadFiles(lg, lang_files, 1,
                      [all_keys |-> {}, keys_by_language |-> EmptyDict, printed |-> <<>>])
         IN  [r EXCEPT !.all_keys = @ \ { <<>> }]

(***************************************************************************)
(* The comparison of main.                                                 *)
(***************************************************************************)
\* a comparison that leaves the special keys in
ForComparisonWithSpecial(translation_keys) == translation_keys

\* translation_keys - SPECIAL_KEYS
ForComparison(translation_keys) == translation_keys \ SPECIAL_KEYS

\* used_strings - translation_keys_for_comparison
MissingTranslations(used_strings, translation_keys) ==
    used_strings \ ForComparison(translation_keys)

\* unused without the allow-list taken out
UnusedWithAllowList(used_strings, translation_keys) ==
    ForComparison(translation_keys) \ used_strings

\* (translation_keys_for_comparison - used_strings) - WHITELIST_UNUSED
UnusedTranslations(used_strings, translation_keys) ==
    (ForComparison(translation_keys) \ used_strings) \ WHITELIST_UNUSED

\* missing_by_language that lists the languages that have the string
MissingByLanguageHaving(missing, keys_by_language) ==
    [string \in missing |->
        sorted({ lang_code \in DOMAIN keys_by_language :
                   string \in keys_by_language[lang_code] \ SPECIAL_KEYS })]

\* missing_by_language: per missing string, the sorted codes of the languages
\* whose keys, less the special keys, lack it
MissingByLanguage(missing, keys_by_language) ==
    [string \in missing |->
        sorted({ lang_code \in DOMAIN keys_by_language :
                   string \notin keys_by_language[lang_code] \ SPECIAL_KEYS })]

(***************************************************************************)
(* Output.  stdout is the sequence of lines printed, each a tuple that     *)
(* starts with the fixed text of the print call and continues with the     *)
(* values formatted into it.                                               *)
(***************************************************************************)
Rule == <<"================">>

Blank == <<"">>

\* sorted(WHITELIST_UNUSED)
SortedWhitelist == sorted(WHITELIST_UNUSED)

\* the JSON document of --json mode
JsonResult(used_locs, excluded, keys, by_language, missing, missing_langs, unused) ==
    LET order == sorted(missing)
        translation_keys == keys
        keys_by_language == by_language
        missing_by_language == missing_langs
    IN
    [summary |->
        [total_strings_used |-> Cardinality(DOMAIN used_locs),
         total_translation_keys |-> Cardinality(ForComparison(translation_keys)),
         total_languages |-> Cardinality(DOMAIN keys_by_language),
         missing_count |-> Cardinality(missing),
         unused_count |-> Cardinality(unused),
         excluded_count |-> Cardinality(excluded),
         whitelisted_count |-> Cardinality(WHITELIST_UNUSED)],
     missing_translations |->
        [i \in DOMAIN order |->
            [string |-> order[i],
             missing_from_languages |-> missing_by_language[order[i]],
             locations |-> used_locs[order[i]]]],
     unused_translations |-> sorted(unused),
     excluded_strings |-> sorted(excluded),
     whitelisted_strings |-> SortedWhitelist]

\* the lines the text report prints for one missing string
MissingLines(string, compact, used_locs, keys_by_language, missing_by_language) ==
    LET locations == used_locs[string]
        missing_langs == missing_by_language[string]
    IN  << <<"  - ", string>> >>
        \o (IF ~compact /\ Len(locations) > 0
            THEN << <<"    ->", locations[1].file, locations[1].line, locations[1].col>> >>
                 \o (IF Len(locations) > 1
                     THEN << <<"    (and more locations)", Len(locations) - 1>> >>
                     ELSE <<>>)
            ELSE <<>>)
        \o (IF compact THEN <<>>
            ELSE IF Len(missing_langs) = Cardinality(DOMAIN keys_by_language)
            THEN << <<"    Missing from: ALL languages", Len(missing_langs)>> >>
            ELSE IF Len(missing_langs) <= 5
            THEN << <<"    Missing from:", missing_langs>> >>
            ELSE << <<"    Missing from: (and more)", SubSeq(missing_langs, 1, 5),
                      Len(missing_langs) - 5>> >>)

RECURSIVE MissingSection(_, _, _, _, _, _)
MissingSection(order, i, compact, used_locs, keys_by_language, missing_by_language) ==
    IF i > Len(order) THEN <<>>
    ELSE MissingLines(order[i], compact, used_locs, keys_by_language, missing_by_language)
         \o MissingSection(order, i + 1, compact, used_locs, keys_by_language,
                           missing_by_language)

\* the text report, from "RESULTS" to the last line
TextReport(compact, used_locs, keys, by_language, missing, missing_langs, unused) ==
    LET unused_order == sorted(unused)
        translation_keys == keys
        keys_by_language == by_language
        missing_by_language == missing_langs
    IN
    << Rule, <<"RESULTS">>, Rule, Blank >>
    \o (IF missing # {}
        THEN << <<"MISSING TRANSLATIONS", Cardinality(missing)>>,
                <<"These strings are used in code but not found in translation files:">>,
                <<"----------------">> >>
             \o MissingSection(sorted(missing), 1, compact, used_locs,
                               keys_by_language, missing_by_language)
             \o << Blank >>
        ELSE << <<"No missing translations found!">>, Blank >>)
    \o (IF unused # {}
        THEN << <<"UNUSED TRANSLATIONS", Cardinality(unused)>>,
                <<"These strings are in translation files but not used in code:">>,
                <<"----------------">> >>
             \o [i \in DOMAIN unused_order |-> <<"  - ", unused_order[i]>>]
             \o << Blank >>
        ELSE << <<"No unused translations found!">>, Blank >>)
    \o << Rule, <<"SUMMARY">>, Rule,
          <<"Total strings used in code:", Cardinality(DOMAIN used_locs)>>,
          <<"Total keys in translation files:", Cardinality(ForComparison(translation_keys))>>,
          <<"Missing translations:", Cardinality(missing)>>,
          <<"Unused translations:", Cardinality(unused)>>,
          <<"Whitelisted strings:", Cardinality(WHITELIST_UNUSED)>>,
          Blank >>
    \o (IF missing # {} \/ unused # {}
        THEN << <<"Translation files need updates!">> >>
        ELSE << <<"All translations are in sync!">> >>)

\* an exit status that looks at missing alone
StatusOfMissingOnly(missing, unused) == IF missing # {} THEN 1 ELSE 0

\* main's exit status in the comparison modes
ComparisonStatus(missing, unused) == IF missing # {} \/ unused # {} THEN 1 ELSE 0

(***************************************************************************)
(* The file tree.                                                          *)
(***************************************************************************)
\* ROOT_DIR.glob("*.html")
HtmlRootFiles == { "index.html" }

\* TEMPLATES_DIR.glob("*.html")
HtmlTemplateFiles == { "templates/modal.html" }

\* JS_DIR.glob("**/*.js")
JsFiles == { "js/app.js", "js/core.js" }

SourceFiles == HtmlRootFiles \cup HtmlTemplateFiles \cup JsFiles

\* the language codes a lang/*.json file may carry
LangCodes == { BaseCode, <<"e","s">>, <<"f","r">> }

\* the files of `paths` a glob finds in the tree
Existing(fs, paths) == { f \in paths : fs[f].exists }

\* the lists a glob may return for a set of paths: every order
Orders(S) == { s \in [1..Cardinality(S) -> S] : Range(s) = S }

\* the lists find_html_files may return: the root files, then the templates
HtmlOrders(fs) ==
    { root \o templates : root \in Orders(Existing(fs, HtmlRootFiles)),
                          templates \in Orders(Existing(fs, HtmlTemplateFiles)) }

\* the arguments the script looks for in sys.argv
Arguments == { "--verbose", "-v", "--json", "--compact", "--export-base", "-e" }

(***************************************************************************)
(* State.                                                                  *)
(*   files, lang      the file tree: source files and lang/*.json          *)
(*   flags            the module-level flags of the running script         *)
(*   pc               where main is: "idle" before the first invocation,   *)
(*                    "done" after a return, "crashed" after an exception  *)
(*                    nothing caught                                       *)
(*   the others       main's local variables, stdout and the exit status   *)
(*                    (-1 while the script runs)                           *)
(*   base_before,     history: lang/base.json when this invocation         *)
(*   prev_export_ok   started, and whether the invocation before it was a  *)
(*                    successful export                                    *)
(***************************************************************************)
VARIABLES files, lang, flags, pc, html_files, js_files,
          ds_i18n_strings, l_function_strings, html_in_js_strings,
          used_strings_with_locations, excluded_strings,
          translation_keys, keys_by_language,
          missing_translations, missing_by_language, unused_translations,
          stdout, exit_code, base_before, prev_export_ok

vars == << files, lang, flags, pc, html_files, js_files,
           ds_i18n_strings, l_function_strings, html_in_js_strings,
           used_strings_with_locations, excluded_strings,
           translation_keys, keys_by_language,
           missing_translations, missing_by_language, unused_translations,
           stdout, exit_code, base_before, prev_export_ok >>

fs_vars == << files, lang >>

find_vars == << html_files, js_files >>

extract_vars == << ds_i18n_strings, l_function_strings, html_in_js_strings >>

filter_vars == << used_strings_with_locations, excluded_strings >>

load_vars == << translation_keys, keys_by_language >>

compare_vars == << missing_translations, missing_by_language, unused_translations >>

history_vars == << base_before, prev_export_ok >>

used_strings == DOMAIN used_strings_with_locations

\* the flags as the module computes them from sys.argv
FlagsOf(argv) ==
    [VERBOSE     |-> "--verbose" \in argv \/ "-v" \in argv,
     JSON_OUTPUT |-> "--json" \in argv,
     COMPACT     |-> "--compact" \in argv,
     EXPORT_BASE |-> "--export-base" \in argv \/ "-e" \in argv]

NoFlags == FlagsOf({})

\* the state before the first invocation, on a given file tree
InitOn(source_tree, lang_dir) ==
    /\ files = source_tree
    /\ lang = lang_dir
    /\ flags = NoFlags
    /\ pc = "idle"
    /\ html_files = <<>> /\ js_files = <<>>
    /\ ds_i18n_strings = EmptyDict
    /\ l_function_strings = EmptyDict
    /\ html_in_js_strings = EmptyDict
    /\ used_strings_with_locations = EmptyDict
    /\ excluded_strings = {}
    /\ translation_keys = {}
    /\ keys_by_language = EmptyDict
    /\ missing_translations = {}
    /\ missing_by_language = EmptyDict
    /\ unused_translations = {}
    /\ stdout = <<>>
    /\ exit_code = -1
    /\ base_before = lang_dir[BaseCode]
    /\ prev_export_ok = FALSE

(***************************************************************************)
(* The steps of one invocation.                                            *)
(***************************************************************************)
\* the lines main prints before it looks for files
HeadingLines(f) ==
    IF f.JSON_OUTPUT THEN <<>>
    ELSE << Rule, <<"Translation String Checker">>, Rule, Blank,
            <<"Scanning source files...">> >>

\* python3 scripts/check_translations.py argv: the flags are set, main
\* starts and prints its heading
Invoke(argv) ==
    /\ pc \in { "idle", "done", "crashed" }
    /\ flags' = FlagsOf(argv)
    /\ pc' = "find"
    /\ html_files' = <<>> /\ js_files' = <<>>
    /\ ds_i18n_strings' = EmptyDict
    /\ l_function_strings' = EmptyDict
    /\ html_in_js_strings' = EmptyDict
    /\ used_strings_with_locations' = EmptyDict
    /\ excluded_strings' = {}
    /\ translation_keys' = {}
    /\ keys_by_language' = EmptyDict
    /\ missing_translations' = {}
    /\ missing_by_language' = EmptyDict
    /\ unused_translations' = {}
    /\ stdout' = HeadingLines(FlagsOf(argv))
    /\ exit_code' = -1
    /\ base_before' = lang[BaseCode]
    /\ prev_export_ok' = (pc = "done" /\ flags.EXPORT_BASE /\ exit_code = 0)
    /\ UNCHANGED fs_vars

\* the lines main prints once it has the file lists
FindLines(f, html_list, js_list) ==
    IF f.JSON_OUTPUT THEN <<>>
    ELSE << <<"Found HTML files", Len(html_list)>>,
            <<"Found JavaScript files", Len(js_list)>>,
            Blank,
            <<"Extracting translation strings from source files...">> >>

\* find_html_files and find_js_files: each glob lists its files in some order
FindFiles ==
    /\ pc = "find"
    /\ html_files' \in HtmlOrders(files)
    /\ js_files' \in Orders(Existing(files, JsFiles))
    /\ stdout' = stdout \o FindLines(flags, html_files', js_files')
    /\ pc' = "extract"
    /\ UNCHANGED << fs_vars, flags, extract_vars, filter_vars, load_vars,
                    compare_vars, exit_code, history_vars >>

\* the lines printed while and after the extractors run
ExtractLines(f, ds, lf, hj) ==
    ds.printed \o lf.printed \o hj.printed
    \o (IF f.JSON_OUTPUT THEN <<>>
        ELSE << <<"Found strings with ds-i18n class in HTML files",
                  Cardinality(DOMAIN ds.strings)>>,
                <<"Found strings in l() function calls",
                  Cardinality(DOMAIN lf.strings)>>,
                <<"Found strings with ds-i18n class in JavaScript files",
                  Cardinality(DOMAIN hj.strings)>>,
                Blank >>)

\* the three extractors, each over all its files
ExtractStrings ==
    /\ pc = "extract"
    /\ LET ds == extract_ds_i18n_strings(files, html_files)
           lf == extract_l_function_strings(files, js_files)
           hj == extract_html_strings_from_js(files, js_files)
       IN  /\ ds_i18n_strings' = ds.strings
           /\ l_function_strings' = lf.strings
           /\ html_in_js_strings' = hj.strings
           /\ stdout' = stdout \o ExtractLines(flags, ds, lf, hj)
    /\ pc' = "filter"
    /\ UNCHANGED << fs_vars, flags, find_vars, filter_vars, load_vars,
                    compare_vars, exit_code, history_vars >>

\* all_used_strings_with_locations of main
AllUsed(ds, lf, hj) == MergeLocations(MergeLocations(ds, lf), hj)

\* excluded_strings of main
Excluded(all_used) == { s \in DOMAIN all_used : should_exclude_string(s) }

\* used_strings_with_locations of main
Kept(all_used) == [k \in DOMAIN all_used \ Excluded(all_used) |-> all_used[k]]

\* the lines main prints about the excluded strings
ExcludedLines(f, excluded) ==
    IF f.JSON_OUTPUT \/ excluded = {} THEN <<>>
    ELSE << <<"Excluded non-translatable strings", Cardinality(excluded)>> >>
         \o (IF f.VERBOSE
             THEN [i \in DOMAIN sorted(excluded) |-> <<"  - ", sorted(excluded)[i]>>]
             ELSE <<>>)
         \o << Blank >>

\* main merges the three results and drops the excluded strings
FilterStrings ==
    /\ pc = "filter"
    /\ LET all_used == AllUsed(ds_i18n_strings, l_function_strings, html_in_js_strings)
       IN  /\ excluded_strings' = Excluded(all_used)
           /\ used_strings_with_locations' = Kept(all_used)
           /\ stdout' = stdout \o ExcludedLines(flags, Excluded(all_used))
    /\ pc' = IF flags.EXPORT_BASE THEN "export" ELSE "load"
    /\ UNCHANGED << fs_vars, flags, find_vars, extract_vars, load_vars,
                    compare_vars, exit_code, history_vars >>

\* --export-base: export_to_base_json, then return 0 or 1
ExportBase(outcome) ==
    /\ pc = "export"
    /\ LET r == export_to_base_json(lang[BaseCode], used_strings, flags.VERBOSE, outcome)
       IN  /\ lang' = [lang EXCEPT ![BaseCode] = r.file]
           /\ stdout' = stdout \o r.printed
           /\ exit_code' = IF r.success THEN 0 ELSE 1
           /\ pc' = IF r.raised THEN "crashed" ELSE "done"
    /\ UNCHANGED << files, flags, find_vars, extract_vars, filter_vars, load_vars,
                    compare_vars, history_vars >>

\* a glob that leaves lang/base.json out
LangFilesOtherThanBase(lg) == { c \in DOMAIN lg \ { BaseCode } : lg[c].kind # "absent" }

\* the files LANG_DIR.glob("*.json") finds
LangFiles(lg) == { c \in DOMAIN lg : lg[c].kind # "absent" }

\* the lines main prints around load_translation_keys
LoadLines(f, r) ==
    (IF f.JSON_OUTPUT THEN <<>>
     ELSE << <<"Loading translation keys from language files...">> >>)
    \o r.printed
    \o (IF f.JSON_OUTPUT THEN <<>>
        ELSE << <<"Found keys in translation files", Cardinality(r.all_keys)>>,
                <<"Found language files", Cardinality(DOMAIN r.keys_by_language)>>,
                Blank >>)

\* load_translation_keys, the glob listing the catalogs in some order
LoadTranslationKeys ==
    /\ pc = "load"
    /\ \E lang_files \in Orders(LangFiles(lang)) :
          LET r == load_translation_keys(lang, lang_files)
          IN  /\ translation_keys' = r.all_keys
              /\ keys_by_language' = r.keys_by_language
              /\ stdout' = stdout \o LoadLines(flags, r)
    /\ pc' = "compare"
    /\ UNCHANGED << fs_vars, flags, find_vars, extract_vars, filter_vars,
                    compare_vars, exit_code, history_vars >>

\* the special keys are set aside; missing, missing_by_language and unused
Compare ==
    /\ pc = "compare"
    /\ missing_translations' = MissingTranslations(used_strings, translation_keys)
    /\ missing_by_language' =
          MissingByLanguage(MissingTranslations(used_strings, translation_keys),
                            keys_by_language)
    /\ unused_translations' = UnusedTranslations(used_strings, translation_keys)
    /\ pc' = "report"
    /\ UNCHANGED << fs_vars, flags, find_vars, extract_vars, filter_vars, load_vars,
                    stdout, exit_code, history_vars >>

\* what main prints of the results: the document, or the text report
ReportLines(f, used_locs, excluded, keys, by_language, missing, missing_langs, unused) ==
    IF f.JSON_OUTPUT
    THEN << <<"json", JsonResult(used_locs, excluded, keys, by_language,
                                 missing, missing_langs, unused)>> >>
    ELSE TextReport(f.COMPACT, used_locs, keys, by_language,
                    missing, missing_langs, unused)

\* --json: the document is printed, main returns
ReportJson ==
    /\ pc = "report" /\ flags.JSON_OUTPUT
    /\ stdout' = stdout \o
          ReportLines(flags, used_strings_with_locations, excluded_strings,
                      translation_keys, keys_by_language,
                      missing_translations, missing_by_language, unused_translations)
    /\ exit_code' = ComparisonStatus(missing_translations, unused_translations)
    /\ pc' = "done"
    /\ UNCHANGED << fs_vars, flags, find_vars, extract_vars, filter_vars, load_vars,
                    compare_vars, history_vars >>

\* the text report is printed, main returns
ReportText ==
    /\ pc = "report" /\ ~flags.JSON_OUTPUT
    /\ stdout' = stdout \o
          ReportLines(flags, used_strings_with_locations, excluded_strings,
                      translation_keys, keys_by_language,
                      missing_translations, missing_by_language, unused_translations)
    /\ exit_code' = ComparisonStatus(missing_translations, unused_translations)
    /\ pc' = "done"
    /\ UNCHANGED << fs_vars, flags, find_vars, extract_vars, filter_vars, load_vars,
                    compare_vars, history_vars >>

\* how the write of lang/base.json may go
WriteOutcomes == { "ok", "open_fails", "dump_fails" }

Next ==
    \/ \E argv \in { a \in SUBSET Arguments : Cardinality(a) <= MaxArgs } : Invoke(argv)
    \/ FindFiles
    \/ ExtractStrings
    \/ FilterStrings
    \/ \E outcome \in WriteOutcomes : ExportBase(outcome)
    \/ LoadTranslationKeys
    \/ Compare
    \/ ReportJson
    \/ ReportText

(***************************************************************************)
(* The file trees the runs start from.                                     *)
(***************************************************************************)
Save == <<"S","a","v","e">>

Cancel == <<"C","a","n","c","e","l">>

Obsolete == <<"O","b","s","o","l","e","t","e">>

\* a string of WHITELIST_UNUSED
White == <<"W","h","i","t","e">>

\* a CSS class selector
DotHide == <<".","h","i","d","e">>

\* a special key
DotTitle == <<".","t","i","t","l","e">>

\* inline formatting inside an element
BoldHi == <<"<","b",">","H","i","<","/","b",">">>

\* other markup inside an element
NestedHi == <<"<","p",">","H","i","<","/","p",">">>

\* the literal of l('It\'s')
ItsRaw == <<"I","t","\\","'","s">>

\* the text of an element built as <span class="ds-i18n">${l("Save")}</span>
TemplateSave == <<"$","{","l","(","\"","S","a","v","e","\"",")","}">>

\* what a match looks like before it has a place in a file
TagShape(text, calls) == [rule |-> "tag", text |-> text, calls |-> calls]

CallShape(text) == [rule |-> "call", text |-> text, calls |-> <<>>]

\* the shapes placed in a file: match i on line i, the calls inside an
\* element to the right of its start
Place(shapes) ==
    [i \in DOMAIN shapes |->
        [rule |-> shapes[i].rule, text |-> shapes[i].text, line |-> i, col |-> 1,
         calls |-> [j \in DOMAIN shapes[i].calls |->
                      [rule |-> "call", text |-> shapes[i].calls[j],
                       line |-> i, col |-> 1 + j, calls |-> <<>>]]]]

NoFile == [exists |-> FALSE, readable |-> FALSE, matches |-> <<>>]

UnreadableFile == [exists |-> TRUE, readable |-> FALSE, matches |-> <<>>]

File(shapes) == [exists |-> TRUE, readable |-> TRUE, matches |-> Place(shapes)]

\* the sequences over S of length at most n
SeqsUpTo(S, n) == UNION { [1..k -> S] : k \in 0..n }

\* the files with at most MaxMatches matches, each of one of the shapes
FilesOver(shapes) == { File(s) : s \in SeqsUpTo(shapes, MaxMatches) }

\* the catalogs with at most MaxKeys keys among `keys`, in sorted order,
\* every value `value`
RECURSIVE ItemsOf(_, _)
ItemsOf(keys, value) ==
    IF keys = <<>> THEN <<>>
    ELSE << <<keys[1], value>> >> \o ItemsOf(Tail(keys), value)

CatalogsOver(keys, value) ==
    { Dict(ItemsOf(sorted(K), value)) :
        K \in { K \in SUBSET keys : Cardinality(K) <= MaxKeys } }

\* the catalogs whose items are any at most MaxBaseItems distinct keys among
\* `keys`, in any order, with any of `values`
OrderedCatalogsOver(keys, values) ==
    { Dict(items) :
        items \in { s \in SeqsUpTo(keys \X values, MaxBaseItems) :
                      \A i, j \in DOMAIN s : i # j => s[i][1] # s[j][1] } }

Tree(index, modal, app, core) ==
    ("index.html" :> index) @@ ("templates/modal.html" :> modal)
    @@ ("js/app.js" :> app) @@ ("js/core.js" :> core)

LangDir(base, es, fr) ==
    (BaseCode :> base) @@ (<<"e","s">> :> es) @@ (<<"f","r">> :> fr)

\* the comparison: every catalog with at most MaxKeys keys for one
\* language, beside a second language that fails, is empty or has one key;
\* the source uses nothing, a plain string, a string of the allow-list, a
\* selector or a special key
InitCatalogs ==
    \E app \in { File(<<>>), File(<< CallShape(Save) >>), File(<< CallShape(White) >>),
                 File(<< CallShape(DotHide) >>), File(<< CallShape(DotTitle) >>) },
       es \in { Absent, Bad, NonDict }
              \cup CatalogsOver({ Save, Obsolete, White, DotHide, DotTitle, <<>> }, "x"),
       fr \in { Absent, Bad, Dict(<<>>), Dict(<< <<Save, "x">> >>) } :
       InitOn(Tree(File(<<>>), NoFile, app, NoFile), LangDir(Absent, es, fr))

\* the extraction: every js/app.js with at most MaxMatches matches, beside
\* markup files and a second script that may be missing or unreadable
InitSources ==
    \E index \in { UnreadableFile,
                   File(<< TagShape(Save, <<>>), TagShape(BoldHi, <<>>),
                           TagShape(NestedHi, <<>>), TagShape(<<>>, <<>>) >>) },
       modal \in { NoFile, File(<< TagShape(Save, <<>>) >>) },
       app \in { UnreadableFile }
               \cup FilesOver({ CallShape(Save), CallShape(ItsRaw), CallShape(DotHide),
                                TagShape(Cancel, <<>>),
                                TagShape(TemplateSave, <<Save>>) }),
       core \in { UnreadableFile,
                  File(<< CallShape(Save), TagShape(Cancel, <<>>), CallShape(<<>>) >>) } :
       InitOn(Tree(index, modal, app, core),
              LangDir(Absent, Dict(<< <<Save, "Guardar">> >>), Bad))

\* the export: every lang/base.json with at most MaxBaseItems items
InitExport ==
    \E app \in { File(<<>>), File(<< CallShape(Save) >>), File(<< CallShape(Cancel) >>) },
       core \in { NoFile, File(<< CallShape(Cancel) >>) },
       base \in { Absent, Bad, NonDict }
                \cup OrderedCatalogsOver({ Save, Obsolete, DotTitle, <<>> },
                                         { "", "Guardar" }) :
       InitOn(Tree(NoFile, NoFile, app, core),
              LangDir(base, Dict(<< <<Save, "Guardar">> >>), Absent))

(***************************************************************************)
(* A whole comparison run as a function of the file tree, the flags and    *)
(* the orders in which the globs list the files: the steps above, composed.*)
(***************************************************************************)
ComparisonRun(fs, lg, f, html_list, js_list, lang_list) ==
    LET ds == extract_ds_i18n_strings(fs, html_list)
        lf == extract_l_function_strings(fs, js_list)
        hj == extract_html_strings_from_js(fs, js_list)
        all_used == AllUsed(ds.strings, lf.strings, hj.strings)
        used_locs == Kept(all_used)
        loaded == load_translation_keys(lg, lang_list)
        missing == MissingTranslations(DOMAIN used_locs, loaded.all_keys)
        missing_langs == MissingByLanguage(missing, loaded.keys_by_language)
        unused == UnusedTranslations(DOMAIN used_locs, loaded.all_keys)
    IN  [used_strings_with_locations |-> used_locs,
         excluded_strings |-> Excluded(all_used),
         missing_translations |-> missing,
         missing_by_language |-> missing_langs,
         unused_translations |-> unused,
         exit_code |-> ComparisonStatus(missing, unused),
         stdout |-> HeadingLines(f) \o FindLines(f, html_list, js_list)
                    \o ExtractLines(f, ds, lf, hj)
                    \o ExcludedLines(f, Excluded(all_used))
                    \o LoadLines(f, loaded)
                    \o ReportLines(f, used_locs, Excluded(all_used), loaded.all_keys,
                                   loaded.keys_by_language, missing, missing_langs, unused)]

Spec == InitCatalogs /\ [][Next]_vars

SpecSources == InitSources /\ [][Next]_vars

SpecExport == InitExport /\ [][Next]_vars

(***************************************************************************)
(* Properties.                                                             *)
(***************************************************************************)
\* a comparison has computed missing and unused
Compared == pc = "report" \/ (pc = "done" /\ ~flags.EXPORT_BASE)

\* the catalogs that load: the files of lang/ that hold a JSON object
LoadedCodes == { c \in DOMAIN lang : lang[c].kind = "dict" }

\* the keys of a loaded catalog as the comparison sees them
ComparedKeys(c) == (Keys(lang[c].items) \ { <<>> }) \ SPECIAL_KEYS

\* a line printed with the fixed text `text`
HasLine(text) == \E i \in DOMAIN stdout : stdout[i][1] = text

\* C1: after a comparison, every kept string that is a key of at least one
\* loaded catalog but not of every loaded catalog is in missing, and its
\* missing-language list is exactly the sorted codes of the loaded catalogs
\* that lack it (l("Save") with "Save" defined for "es" only: missing["Save"]
\* lists the other languages).
C1_PartlyTranslatedIsMissing ==
    Compared =>
        \A s \in used_strings :
            (/\ \E c \in LoadedCodes : s \in ComparedKeys(c)
             /\ \E c \in LoadedCodes : s \notin ComparedKeys(c))
            => /\ s \in missing_translations
               /\ s \notin unused_translations
               /\ missing_by_language[s]
                    = sorted({ c \in LoadedCodes : s \notin ComparedKeys(c) })

\* C2: after a comparison, no string that matches an exclusion pattern is in
\* missing or in unused, whatever the sources and the catalogs hold.
C2_ExcludedNeverReported ==
    Compared =>
        \A s \in missing_translations \cup unused_translations :
            ~should_exclude_string(s)

\* C3: after a comparison, neither special key is in missing or in unused,
\* whether or not the source refers to it and whether or not a catalog has it.
C3_SpecialKeysNeverReported ==
    Compared =>
        SPECIAL_KEYS \cap (missing_translations \cup unused_translations) = {}

\* C3 witness: a finished comparison where the source calls l(".title") and a
\* loaded catalog has the key ".title"
C3_Witness ==
    /\ pc = "done" /\ ~flags.EXPORT_BASE
    /\ DotTitle \in excluded_strings
    /\ \E c \in LoadedCodes : DotTitle \in Keys(lang[c].items)

\* C4: after a comparison, unused is exactly the non-empty keys of the loaded
\* catalogs that are not special keys, not kept strings and not in the
\* allow-list; and a kept string of the allow-list that no loaded catalog has
\* is in missing all the same.
C4_UnusedExactly ==
    Compared =>
        /\ unused_translations =
              { k \in UNION { Keys(lang[c].items) : c \in LoadedCodes } :
                  /\ k # <<>>
                  /\ k \notin SPECIAL_KEYS
                  /\ k \notin used_strings
                  /\ k \notin WHITELIST_UNUSED }
        /\ \A s \in used_strings \cap WHITELIST_UNUSED :
              (\A c \in LoadedCodes : s \notin Keys(lang[c].items))
              => s \in missing_translations

\* C4 witness: a finished comparison where a catalog has "Obsolete" and the
\* allow-listed "White", neither used: "Obsolete" alone is unused
C4_Witness ==
    /\ pc = "done" /\ ~flags.EXPORT_BASE
    /\ \E c \in LoadedCodes : { Obsolete, White } \subseteq Keys(lang[c].items)
    /\ unused_translations = { Obsolete }

\* C5: when main has returned, the exit status of a comparison (--json or
\* text, --compact, --verbose or not) is 1 if missing or unused is non-empty
\* and 0 otherwise; the exit status of an export is 0 with the base catalog
\* written and 1 with the write failed, whatever a comparison would have
\* found.  An export that ends in an uncaught exception wrote nothing and
\* exits 1.
C5_ExitStatus ==
    /\ pc = "done" /\ ~flags.EXPORT_BASE =>
          /\ exit_code \in { 0, 1 }
          /\ exit_code = 1 <=> (missing_translations # {} \/ unused_translations # {})
    /\ pc = "done" /\ flags.EXPORT_BASE =>
          \/ /\ exit_code = 0
             /\ HasLine("Exported") /\ ~HasLine("Error writing base.json")
             /\ lang[BaseCode].kind = "dict"
          \/ /\ exit_code = 1
             /\ HasLine("Error writing base.json") /\ ~HasLine("Exported")
             /\ lang[BaseCode] \in { base_before, Bad }
    /\ pc = "crashed" => exit_code = 1 /\ lang[BaseCode] = base_before

\* C5 witness: an export that succeeded, exit status 0, although a kept
\* string is in no other catalog
C5_Witness ==
    /\ pc = "done" /\ flags.EXPORT_BASE /\ exit_code = 0
    /\ \E s \in used_strings :
          \A c \in LoadedCodes \ { BaseCode } : s \notin Keys(lang[c].items)

\* C9: however many catalog files fail to read or parse,
\* load_translation_keys returns: keys_by_language has an entry for exactly
\* the files that loaded, each entry the file's keys without the empty
\* string; the union is the union of those keys without the empty string; no
\* entry holds the empty string or a key outside the union.
C9_LoadFailureIsolation ==
    (pc = "compare" \/ Compared) =>
        /\ DOMAIN keys_by_language = LoadedCodes
        /\ translation_keys
              = UNION { Keys(lang[c].items) : c \in LoadedCodes } \ { <<>> }
        /\ \A c \in LoadedCodes :
              /\ keys_by_language[c] = Keys(lang[c].items) \ { <<>> }
              /\ keys_by_language[c] \subseteq translation_keys
              /\ <<>> \notin keys_by_language[c]

\* C9 witness: the catalogs are loaded, one file failed, another has the
\* empty-string key beside a real one
C9_Witness ==
    /\ pc = "compare"
    /\ \E c \in DOMAIN lang : lang[c].kind \in { "bad", "nondict" }
    /\ \E c \in LoadedCodes :
          <<>> \in Keys(lang[c].items) /\ keys_by_language[c] # {}

\* C10: a --json comparison writes the result document to stdout and nothing
\* else, also when a source file cannot be read, a catalog fails to parse or
\* there are no catalogs.
C10_JsonStdoutIsTheDocument ==
    (pc = "done" /\ flags.JSON_OUTPUT /\ ~flags.EXPORT_BASE) =>
        Len(stdout) = 1 /\ stdout[1][1] = "json"

\* C6: when two exports in a row both succeed, with the sources unchanged,
\* the second leaves lang/base.json exactly as the first left it (the same
\* keys in the same order with the same values) and reports no added key.
C6_ExportIdempotent ==
    (pc = "done" /\ flags.EXPORT_BASE /\ exit_code = 0 /\ prev_export_ok) =>
        /\ lang[BaseCode] = base_before
        /\ ~HasLine("+ Added") /\ ~HasLine("Added new strings")

\* C6 witness: a second successful export in a row, over a file that holds
\* a translation
C6_Witness ==
    /\ pc = "done" /\ flags.EXPORT_BASE /\ exit_code = 0 /\ prev_export_ok
    /\ Get(lang[BaseCode].items, Save, "") = "Guardar"

\* s is strictly ascending in Python's string order
IsAscending(s) == \A i, j \in DOMAIN s : i < j => StrLess(s[i], s[j])

\* C7: after a successful export the keys of lang/base.json are the special
\* keys in sorted order, then the kept strings in sorted order, then the
\* empty string; the value of every special key and kept string is the value
\* the file held for it before the export, or "" if it held none; and no
\* other key of the old file, the empty string apart, is left.
C7_ExportContents ==
    (pc = "done" /\ flags.EXPORT_BASE /\ exit_code = 0) =>
        LET items == lang[BaseCode].items
            keys == [i \in DOMAIN items |-> items[i][1]]
            before == base_before.items
            n == Cardinality(SPECIAL_KEYS)
            m == Cardinality(used_strings)
        IN  /\ lang[BaseCode].kind = "dict"
            /\ Len(keys) = n + m + 1
            /\ Range(SubSeq(keys, 1, n)) = SPECIAL_KEYS
            /\ IsAscending(SubSeq(keys, 1, n))
            /\ Range(SubSeq(keys, n + 1, n + m)) = used_strings
            /\ IsAscending(SubSeq(keys, n + 1, n + m))
            /\ keys[n + m + 1] = <<>>
            /\ \A i \in 1..(n + m) :
                  IF \E j \in DOMAIN before : before[j][1] = keys[i]
                  THEN \E j \in DOMAIN before :
                          before[j][1] = keys[i] /\ items[i][2] = before[j][2]
                  ELSE items[i][2] = ""
            /\ \A k \in Keys(before) \ (SPECIAL_KEYS \cup used_strings \cup { <<>> }) :
                  k \notin Range(keys)

\* C7 witness: the old file held "Save": "Guardar" and a key no longer used,
\* the source uses "Save" and "Cancel": the new file has "Save": "Guardar"
\* and "Cancel": ""
C7_Witness ==
    /\ pc = "done" /\ flags.EXPORT_BASE /\ exit_code = 0
    /\ used_strings = { Save, Cancel }
    /\ Get(base_before.items, Save, "") = "Guardar"
    /\ Obsolete \in Keys(base_before.items)
    /\ Get(lang[BaseCode].items, Save, "") = "Guardar"
    /\ Get(lang[BaseCode].items, Cancel, "?") = ""

\* the occurrences of a list, each with the number of times it is there
OccurrenceBag(locations) ==
    [o \in Range(locations) |->
        Cardinality({ i \in DOMAIN locations : locations[i] = o })]

\* the lines whose content depends on the order the files are taken in
OrderDependentLines == { "Error reading", "    ->", "json" }

\* every comparison run on the present file tree and flags, one for each
\* order in which the globs may list the files
AllOrdersRuns ==
    { ComparisonRun(files, lang, flags, h, j, g) :
        h \in HtmlOrders(files),
        j \in Orders(Existing(files, JsFiles)),
        g \in Orders(LangFiles(lang)) }

\* the results of run r that are sets, lists sorted by the program, or numbers
\* are those of the present state
SameSetsAs(r) ==
    /\ DOMAIN r.used_strings_with_locations = used_strings
    /\ r.excluded_strings = excluded_strings
    /\ r.missing_translations = missing_translations
    /\ r.missing_by_language = missing_by_language
    /\ r.unused_translations = unused_translations
    /\ r.exit_code = exit_code

\* C8 as stated: a finished comparison has, whatever the order the files
\* were taken in, the same mapping from string to occurrences, the same kept,
\* excluded, missing and unused sets, the same exit status and the same
\* report.
C8_OrderIndependent ==
    (pc = "done" /\ ~flags.EXPORT_BASE) =>
        \A r \in AllOrdersRuns :
            /\ SameSetsAs(r)
            /\ r.used_strings_with_locations = used_strings_with_locations
            /\ r.stdout = stdout

\* C8 as amended: a finished comparison has, whatever the order the files
\* were taken in, the same kept, excluded, missing and unused sets, the same
\* missing-language lists, the same exit status and, for every kept string,
\* the same occurrences up to their order; the report has the same lines in
\* the same places, except for the file an error line names, the location
\* shown for a missing string and the JSON document.
C8_OrderIndependentSets ==
    (pc = "done" /\ ~flags.EXPORT_BASE) =>
        \A r \in AllOrdersRuns :
            /\ SameSetsAs(r)
            /\ \A s \in used_strings :
                  OccurrenceBag(r.used_strings_with_locations[s])
                    = OccurrenceBag(used_strings_with_locations[s])
            /\ Len(r.stdout) = Len(stdout)
            /\ \A i \in DOMAIN stdout :
                  /\ r.stdout[i][1] = stdout[i][1]
                  /\ stdout[i][1] \notin OrderDependentLines => r.stdout[i] = stdout[i]

\* C8 witness: a finished comparison in which a kept string occurs in both
\* scripts and js/core.js was taken first
C8_Witness ==
    /\ pc = "done" /\ ~flags.EXPORT_BASE
    /\ js_files = << "js/core.js", "js/app.js" >>
    /\ \E s \in used_strings :
          { "js/core.js", "js/app.js" }
            \subseteq { used_strings_with_locations[s][i].file :
                          i \in DOMAIN used_strings_with_locations[s] }

(***************************************************************************)
(* C11: in every comparison run, every string of the missing set is absent *)
(* from every catalog that loaded, its missing-language list is the sorted *)
(* list of all the loaded language codes, and the text report prints       *)
(* "Missing from: ALL languages" for it: the branch that lists up to five  *)
(* codes, and the one that adds an overflow count, are never taken.        *)
(***************************************************************************)
C11_MissingFromAllLanguages ==
    Compared =>
        /\ DOMAIN missing_by_language = missing_translations
        /\ \A s \in missing_translations :
              /\ \A c \in LoadedCodes : s \notin Keys(lang[c].items)
              /\ missing_by_language[s] = sorted(LoadedCodes)
              /\ Len(missing_by_language[s]) = Cardinality(DOMAIN keys_by_language)
        /\ ~HasLine("    Missing from:")
        /\ ~HasLine("    Missing from: (and more)")

\* a finished text report of a string that two loaded catalogs lack while one
\* of them defines other keys
C11_Witness ==
    /\ pc = "done" /\ ~flags.EXPORT_BASE /\ ~flags.JSON_OUTPUT /\ ~flags.COMPACT
    /\ Cardinality(LoadedCodes) >= 2
    /\ \E c \in LoadedCodes : ComparedKeys(c) # {}
    /\ \E s \in missing_translations : Len(missing_by_language[s]) >= 2
    /\ HasLine("    Missing from: ALL languages")

(***************************************************************************)
(* C12: a comparison run that follows a successful export run, the source  *)
(* files unchanged, loads the exported lang/base.json as one more catalog: *)
(* its missing set is empty whatever the other catalogs hold, and its      *)
(* unused set is the one the other catalogs alone give, the exported file  *)
(* adding no string to it.                                                 *)
(***************************************************************************)
C12_ExportThenCompare ==
    (Compared /\ prev_export_ok) =>
        /\ BaseCode \in DOMAIN keys_by_language
        /\ used_strings \subseteq keys_by_language[BaseCode]
        /\ missing_translations = {}
        /\ unused_translations =
              { k \in UNION { ComparedKeys(c) : c \in LoadedCodes \ { BaseCode } } :
                    k \notin used_strings /\ k \notin WHITELIST_UNUSED }

\* a finished comparison after a successful export, of a used string that no
\* other loaded catalog defines, while another catalog has an unused key
C12_Witness ==
    /\ pc = "done" /\ ~flags.EXPORT_BASE /\ prev_export_ok
    /\ used_strings # {}
    /\ LoadedCodes \ { BaseCode } # {}
    /\ \A c \in LoadedCodes \ { BaseCode } : Keys(lang[c].items) \cap used_strings = {}
    /\ missing_translations = {}
    /\ unused_translations # {}

====
